---------------------------- MODULE Spec2Model ----------------------------
(***************************************************************************)
(* A model of iva.qc.Qc (src/iva/qc.py): the interval helpers, the hit     *)
(* classifier, the coverage analyser, the reference gap analyser, the CDS  *)
(* and reference scorers, and the run() pipeline that folds them into the  *)
(* stats mapping.                                                          *)
(*                                                                         *)
(* An interval is the pair <<start, end>> of inclusive 0-based offsets     *)
(* (fastaq.intervals.Interval).  A Python list is a TLA+ sequence, so the  *)
(* Python index i is the TLA+ index i + 1.  A dict is a function whose     *)
(* DOMAIN is the set of its keys.                                          *)
(***************************************************************************)
EXTENDS Integers, Sequences, FiniteSets, TLC

(***************************************************************************)
(* Bounds of the model.                                                    *)
(***************************************************************************)
\* longest sequence the interval operations are explored on
MaxSeqLen == 4
\* longest interval list handed to the interval operations
MaxIvs == 3
\* longest depth array handed to the coverage scan
MaxCovLen == 4
\* length of the contig whose hits are classified
MaxQryLen == 2
\* most hits in one query sequence's group
MaxGroup == 3
\* longest reference sequence
MaxRefLen == 3
\* most hits on the reference sequence of the gap analysis
MaxRefHits == 2
\* most hits of one CDS explored by the CDS scorer
MaxCdsHits == 2
\* most hits in a group whose placement is computed
MaxPlaced == 3
\* largest value of the constructor's threads parameter
MaxThreads == 2

\* default of the constructor's min_ref_cov parameter
DefaultMinRefCov == 5

VARIABLES
    \* one method applied to drawn arguments
    call,          \* the method applied ("none" before)
    ret,           \* what the method returned
    coords,        \* argument: a list of intervals
    seq_length,    \* argument: the length of a sequence
    depths,        \* argument: a depth array (forward strand)
    depths_rev,    \* argument: the reverse strand's depth array
    hits,          \* argument: a list of alignment hits
    kwargs,        \* the arguments of Qc(...) while the constructor runs
    processes,     \* the constructor's local list of gunzip processes
    \* a run of the Qc object
    self,          \* the fields of the Qc object
    pc,            \* the step run() is about to take
    error,         \* the exception that ended the run ("none" otherwise)
    files          \* the files that exist under the output prefix

\* the arguments of the methods explored one call at a time, and the
\* arguments and the local list of the constructor
args == <<coords, seq_length, depths, depths_rev, hits, kwargs, processes>>

\* the Qc object, its run and its files
qc == <<self, pc, error, files>>

vars == <<call, ret, args, qc>>

(***************************************************************************)
(* fastaq.intervals, as qc.py uses it.                                     *)
(***************************************************************************)
\* Interval.__init__ raises Error when end < start
IntervalRaises(iv) == iv[2] < iv[1]

\* len(Interval)
IntervalLen(iv) == iv[2] - iv[1] + 1

\* Interval.intersects
Intersects(a, b) == a[1] <= b[2] /\ b[1] <= a[2]

\* Interval.__lt__: by start, then by end
IntervalLt(a, b) == a[1] < b[1] \/ (a[1] = b[1] /\ a[2] < b[2])

\* Interval.union gives the hull of two intersecting or adjacent intervals,
\* and None for any other pair
CanUnion(a, b) == Intersects(a, b) \/ a[2] + 1 = b[1] \/ b[2] + 1 = a[1]

Min2(x, y) == IF x <= y THEN x ELSE y

Max2(x, y) == IF x >= y THEN x ELSE y

Union(a, b) == <<Min2(a[1], b[1]), Max2(a[2], b[2])>>

\* Interval.intersection of two intersecting intervals
IntervalIntersection(a, b) == <<Max2(a[1], b[1]), Min2(a[2], b[2])>>

RECURSIVE InsertSorted(_, _)
InsertSorted(l, x) ==
    IF l = <<>> THEN <<x>>
    ELSE IF IntervalLt(x, Head(l)) THEN <<x>> \o l
    ELSE <<Head(l)>> \o InsertSorted(Tail(l), x)

\* list.sort() on a list of intervals
RECURSIVE SortIntervals(_)
SortIntervals(l) ==
    IF l = <<>> THEN <<>>
    ELSE InsertSorted(SortIntervals(SubSeq(l, 1, Len(l) - 1)), l[Len(l)])

\* the while loop of merge_overlapping_in_list, i a Python index
RECURSIVE MergeFrom(_, _)
MergeFrom(l, i) ==
    IF i >= Len(l) - 1 THEN l
    ELSE IF CanUnion(l[i + 1], l[i + 2])
         THEN MergeFrom(SubSeq(l, 1, i) \o <<Union(l[i + 1], l[i + 2])>>
                            \o SubSeq(l, i + 3, Len(l)), i)
         ELSE MergeFrom(l, i + 1)

\* fastaq.intervals.merge_overlapping_in_list: sort, then fold every pair of
\* neighbours that intersect or are adjacent
merge_overlapping_in_list(l) == MergeFrom(SortIntervals(l), 0)

\* fastaq.intervals.length_sum_from_list
RECURSIVE length_sum_from_list(_)
length_sum_from_list(l) ==
    IF l = <<>> THEN 0 ELSE IntervalLen(Head(l)) + length_sum_from_list(Tail(l))

\* intersection: while l2_pos < len(l2) and l2[l2_pos].end < l.start: l2_pos += 1
RECURSIVE SkipBefore(_, _, _)
SkipBefore(l2, l2_pos, l) ==
    IF l2_pos < Len(l2) /\ l2[l2_pos + 1][2] < l[1]
    THEN SkipBefore(l2, l2_pos + 1, l)
    ELSE l2_pos

\* intersection: while l2_pos < len(l2) and l.intersects(l2[l2_pos]): append, l2_pos += 1
RECURSIVE TakeIntersecting(_, _, _, _)
TakeIntersecting(l2, l2_pos, l, out) ==
    IF l2_pos < Len(l2) /\ Intersects(l, l2[l2_pos + 1])
    THEN TakeIntersecting(l2, l2_pos + 1, l,
                          Append(out, IntervalIntersection(l, l2[l2_pos + 1])))
    ELSE [l2_pos |-> l2_pos, out |-> out]

\* intersection: for l in l1, from the k-th element of l1 on
RECURSIVE IntersectionFrom(_, _, _, _, _)
IntersectionFrom(l1, l2, k, l2_pos, out) ==
    IF k > Len(l1) THEN out
    ELSE LET skipped == SkipBefore(l2, l2_pos, l1[k])
         IN  IF skipped = Len(l2) THEN out
             ELSE LET taken == TakeIntersecting(l2, skipped, l1[k], out)
                  IN  IntersectionFrom(l1, l2, k + 1,
                                       Max2(0, taken.l2_pos - 1), taken.out)

\* fastaq.intervals.intersection of two sorted interval lists
intersection(l1, l2) ==
    IF Len(l1) = 0 \/ Len(l2) = 0 THEN <<>>
    ELSE IntersectionFrom(l1, l2, 1, 0, <<>>)

(***************************************************************************)
(* Alignment hits (iva.mummer.NucmerHit).  A hit is the record of the      *)
(* fields qc.py reads; a list element is identified by its place in the    *)
(* list, as a Python object is by its identity.                            *)
(***************************************************************************)
\* NucmerHit.qry_coords(): the query interval, start <= end whatever the strand
qry_coords(hit) ==
    <<Min2(hit.qry_start, hit.qry_end), Max2(hit.qry_start, hit.qry_end)>>

\* NucmerHit.ref_coords(): the reference interval, start <= end
ref_coords(hit) ==
    <<Min2(hit.ref_start, hit.ref_end), Max2(hit.ref_start, hit.ref_end)>>

\* NucmerHit.on_same_strand(): query and reference run in the same direction
on_same_strand(hit) ==
    (hit.ref_start < hit.ref_end) = (hit.qry_start < hit.qry_end)

\* test_hit != hit, for the list elements at places j and i: another hit of
\* the group
IsOtherHit(hit_list, j, i) == j # i

\* the keys under which a list of hits is filed
QryNames(hit_list) == {hit_list[k].qry_name : k \in 1..Len(hit_list)}

RefNames(hit_list) == {hit_list[k].ref_name : k \in 1..Len(hit_list)}

\* Qc._mummer_coords_file_to_dict: the hits of a coords file by query name
_mummer_coords_file_to_dict(hit_list) ==
    [name \in QryNames(hit_list) |->
        SelectSeq(hit_list, LAMBDA hit : hit.qry_name = name)]

\* the lists of a dict of hits one after the other (a dict of hits is only
\* ever read through merges, counts and single elements, so the order of its
\* keys cannot be seen)
RECURSIVE ValuesOf(_, _)
ValuesOf(d, keys) ==
    IF keys = {} THEN <<>>
    ELSE LET k == CHOOSE x \in keys : TRUE
         IN  d[k] \o ValuesOf(d, keys \ {k})

\* Qc._hash_nucmer_hits_by_ref
_hash_nucmer_hits_by_ref(d) ==
    LET all == ValuesOf(d, DOMAIN d)
    IN  [name \in RefNames(all) |-> SelectSeq(all, LAMBDA hit : hit.ref_name = name)]

(***************************************************************************)
(* Qc._invert_list.  The result is [raised, val]: raised when one of the   *)
(* Interval(...) constructions of the method raises.                       *)
(***************************************************************************)
Returned(l) ==
    IF \E i \in 1..Len(l) : IntervalRaises(l[i])
    THEN [raised |-> TRUE, val |-> <<>>]
    ELSE [raised |-> FALSE, val |-> l]

\* a faulty variant: the trailing gap is closed one base early
_invert_list_short_tail(coords_, seq_length_) ==
    IF Len(coords_) = 0 THEN Returned(<< <<0, seq_length_ - 1>> >>)
    ELSE LET n == Len(coords_)
             first == IF coords_[1][1] # 0
                      THEN << <<0, coords_[1][1] - 1>> >> ELSE <<>>
             mid == [i \in 1..(n - 1) |-> <<coords_[i][2] + 1, coords_[i + 1][1] - 1>>]
             last == IF coords_[n][2] < seq_length_ - 2
                     THEN << <<coords_[n][2] + 1, seq_length_ - 2>> >> ELSE <<>>
         IN  Returned(first \o mid \o last)

_invert_list(coords_, seq_length_) ==
    IF Len(coords_) = 0 THEN Returned(<< <<0, seq_length_ - 1>> >>)
    ELSE LET n == Len(coords_)
             first == IF coords_[1][1] # 0
                      THEN << <<0, coords_[1][1] - 1>> >> ELSE <<>>
             mid == [i \in 1..(n - 1) |-> <<coords_[i][2] + 1, coords_[i + 1][1] - 1>>]
             last == IF coords_[n][2] < seq_length_ - 1
                     THEN << <<coords_[n][2] + 1, seq_length_ - 1>> >> ELSE <<>>
         IN  Returned(first \o mid \o last)

(***************************************************************************)
(* Qc._coverage_list_to_low_cov_intervals.  None is modelled as -1.        *)
(***************************************************************************)
None == -1

\* the for loop, from Python index i on: returns the loop's final
\* (start, cov_bad, bad_intervals)
RECURSIVE LowCovLoop(_, _, _, _, _, _)
LowCovLoop(l, min_cov, i, start, cov_bad, bad_intervals) ==
    IF i >= Len(l) THEN [start |-> start, cov_bad |-> cov_bad, bad |-> bad_intervals]
    ELSE IF l[i + 1] < min_cov
         THEN LowCovLoop(l, min_cov, i + 1, IF start = None THEN i ELSE start,
                         TRUE, bad_intervals)
         ELSE LowCovLoop(l, min_cov, i + 1, None, FALSE,
                         IF start # None
                         THEN Append(bad_intervals, <<start, i - 1>>)
                         ELSE bad_intervals)

\* a faulty variant: the run still open at the end of the array is dropped
_coverage_list_to_low_cov_intervals_no_tail(l, min_cov) ==
    LowCovLoop(l, min_cov, 0, None, FALSE, <<>>).bad

_coverage_list_to_low_cov_intervals(l, min_cov) ==
    LET end == LowCovLoop(l, min_cov, 0, None, FALSE, <<>>)
    IN  IF end.cov_bad /\ end.start # None
        THEN Append(end.bad, <<end.start, Len(l) - 1>>)
        ELSE end.bad

(***************************************************************************)
(* The hit classifier and the contig placement.                            *)
(***************************************************************************)
\* the for loop of _get_overlapping_qry_hits from place j on; i is the place
\* of `hit` in `hits`
RECURSIVE OverlappingFrom(_, _, _, _)
OverlappingFrom(hit_list, i, j, overlapping) ==
    IF j > Len(hit_list) THEN overlapping
    ELSE OverlappingFrom(hit_list, i, j + 1,
             IF /\ IsOtherHit(hit_list, j, i)
                /\ Intersects(qry_coords(hit_list[j]), qry_coords(hit_list[i]))
             THEN Append(overlapping, j)
             ELSE overlapping)

\* a faulty variant: the overlap is looked for on the reference side
_get_overlapping_qry_hits_on_ref(hit_list, i) ==
    SelectSeq([j \in 1..Len(hit_list) |-> j],
              LAMBDA j : /\ IsOtherHit(hit_list, j, i)
                         /\ Intersects(ref_coords(hit_list[j]), ref_coords(hit_list[i])))

\* Qc._get_overlapping_qry_hits(hits, hits[i]): the places of the overlapping hits
_get_overlapping_qry_hits(hit_list, i) == OverlappingFrom(hit_list, i, 1, <<>>)

\* the for loop of _get_unique_and_repetitive_from_contig_hits from place i on
RECURSIVE ClassifyFrom(_, _, _, _)
ClassifyFrom(hit_list, i, unique, repetitive) ==
    IF i > Len(hit_list) THEN [unique |-> unique, repetitive |-> repetitive]
    ELSE IF Len(_get_overlapping_qry_hits(hit_list, i)) > 0
         THEN ClassifyFrom(hit_list, i + 1, unique, Append(repetitive, i))
         ELSE ClassifyFrom(hit_list, i + 1, Append(unique, i), repetitive)

\* a faulty variant: a hit overlapping an earlier hit is dropped instead of recorded
RECURSIVE ClassifyFromDropping(_, _, _, _)
ClassifyFromDropping(hit_list, i, unique, repetitive) ==
    IF i > Len(hit_list) THEN [unique |-> unique, repetitive |-> repetitive]
    ELSE LET over == _get_overlapping_qry_hits(hit_list, i)
         IN  IF Len(over) > 0 /\ over[1] < i
             THEN ClassifyFromDropping(hit_list, i + 1, unique, repetitive)
             ELSE IF Len(over) > 0
             THEN ClassifyFromDropping(hit_list, i + 1, unique, Append(repetitive, i))
             ELSE ClassifyFromDropping(hit_list, i + 1, Append(unique, i), repetitive)

_get_unique_and_repetitive_from_contig_hits_dropping(hit_list) ==
    ClassifyFromDropping(hit_list, 1, <<>>, <<>>)

\* Qc._get_unique_and_repetitive_from_contig_hits: the two lists hold the
\* places of the hits appended to them
_get_unique_and_repetitive_from_contig_hits(hit_list) ==
    IF Len(hit_list) = 0 THEN [unique |-> <<>>, repetitive |-> <<>>]
    ELSE ClassifyFrom(hit_list, 1, <<>>, <<>>)

\* str.__lt__ on the names of the reference sequences of the model
NameLt(a, b) == a = "ref1" /\ b = "ref2"

\* tuple.__lt__ on placement tuples
\* (qry_coords, ref_name, ref_coords, same_strand, repetitive)
PlacementLt(a, b) ==
    IF a[1] # b[1] THEN IntervalLt(a[1], b[1])
    ELSE IF a[2] # b[2] THEN NameLt(a[2], b[2])
    ELSE IF a[3] # b[3] THEN IntervalLt(a[3], b[3])
    ELSE IF a[4] # b[4] THEN ~a[4] /\ b[4]
    ELSE ~a[5] /\ b[5]

RECURSIVE InsertPlacement(_, _)
InsertPlacement(l, x) ==
    IF l = <<>> THEN <<x>>
    ELSE IF PlacementLt(x, Head(l)) THEN <<x>> \o l
    ELSE <<Head(l)>> \o InsertPlacement(Tail(l), x)

\* placement.sort()
RECURSIVE SortPlacement(_)
SortPlacement(l) ==
    IF l = <<>> THEN <<>>
    ELSE InsertPlacement(SortPlacement(SubSeq(l, 1, Len(l) - 1)), l[Len(l)])

PlacementTuple(hit, repetitive) ==
    <<qry_coords(hit), hit.ref_name, ref_coords(hit), on_same_strand(hit), repetitive>>

\* a faulty variant: the placement list is returned as built, not sorted
_contig_placement_in_reference_unsorted(hit_list) ==
    LET classes == _get_unique_and_repetitive_from_contig_hits(hit_list)
    IN  [k \in 1..Len(classes.unique) |->
            PlacementTuple(hit_list[classes.unique[k]], FALSE)]
        \o [k \in 1..Len(classes.repetitive) |->
            PlacementTuple(hit_list[classes.repetitive[k]], TRUE)]

\* Qc._contig_placement_in_reference
_contig_placement_in_reference(hit_list) ==
    LET classes == _get_unique_and_repetitive_from_contig_hits(hit_list)
        placed == [k \in 1..Len(classes.unique) |->
                      PlacementTuple(hit_list[classes.unique[k]], FALSE)]
                  \o [k \in 1..Len(classes.repetitive) |->
                      PlacementTuple(hit_list[classes.repetitive[k]], TRUE)]
    IN  SortPlacement(placed)

(***************************************************************************)
(* The coverage analyser and the reference gap analyser.  A method that    *)
(* fills a dict returns it as a function, next to `raised` whenever one of *)
(* its Interval(...) constructions can raise.                              *)
(***************************************************************************)
\* the elements of a Python list
Elements(l) == {l[k] : k \in 1..Len(l)}

\* a faulty variant: only the forward strand has to clear the threshold
RegionCoverageFwdOnly(fwd, rev, length, min_cov) ==
    LET low_fwd == _coverage_list_to_low_cov_intervals(fwd, min_cov)
        low_rev == _coverage_list_to_low_cov_intervals(rev, min_cov)
        fwd_ok == _invert_list(low_fwd, length)
    IN  [raised |-> fwd_ok.raised,
         low_fwd |-> low_fwd,
         low_rev |-> low_rev,
         ok |-> fwd_ok.val,
         low |-> intersection(low_fwd, low_rev)]

\* the loop body of _calculate_ref_read_region_coverage, for the sequence
\* with depth arrays fwd and rev
RegionCoverage(fwd, rev, length, min_cov) ==
    LET low_fwd == _coverage_list_to_low_cov_intervals(fwd, min_cov)
        low_rev == _coverage_list_to_low_cov_intervals(rev, min_cov)
        fwd_ok == _invert_list(low_fwd, length)
        rev_ok == _invert_list(low_rev, length)
    IN  [raised |-> fwd_ok.raised \/ rev_ok.raised,
         low_fwd |-> low_fwd,
         low_rev |-> low_rev,
         ok |-> intersection(fwd_ok.val, rev_ok.val),
         low |-> intersection(low_fwd, low_rev)]

\* what Qc._calculate_ref_read_region_coverage stores
RefReadRegionCoverage(ids, lengths, fwd, rev, min_cov) ==
    LET region == [name \in Elements(ids) |->
                      RegionCoverage(fwd[name], rev[name], lengths[name], min_cov)]
    IN  [raised |-> \E name \in Elements(ids) : region[name].raised,
         low_fwd |-> [name \in Elements(ids) |-> region[name].low_fwd],
         low_rev |-> [name \in Elements(ids) |-> region[name].low_rev],
         ok |-> [name \in Elements(ids) |-> region[name].ok],
         low |-> [name \in Elements(ids) |-> region[name].low]]

\* [x.ref_coords() for x in hit_list]
RefCoordsOf(hit_list) == [k \in 1..Len(hit_list) |-> ref_coords(hit_list[k])]

\* [x.qry_coords() for x in hit_list]
QryCoordsOf(hit_list) == [k \in 1..Len(hit_list) |-> qry_coords(hit_list[k])]

\* the first two loops of _calculate_ref_positions_covered_by_contigs: the
\* merged reference intervals of the hits, keyed by the references hit
CoveredByContigs(hits_dict) ==
    LET by_ref == _hash_nucmer_hits_by_ref(hits_dict)
    IN  [name \in DOMAIN by_ref |-> merge_overlapping_in_list(RefCoordsOf(by_ref[name]))]

\* the covered list of a sequence, [] when no hit lies on it
CoveredOrEmpty(covered, name) ==
    IF name \in DOMAIN covered THEN covered[name] ELSE <<>>

\* what Qc._calculate_ref_positions_covered_by_contigs stores
RefPositionsCoveredByContigs(empty, hits_dict, ids, lengths) ==
    IF empty
    THEN [raised |-> \E name \in DOMAIN lengths : lengths[name] < 1,
          covered |-> <<>>,
          not_covered |-> [name \in DOMAIN lengths |-> << <<0, lengths[name] - 1>> >>]]
    ELSE LET covered == CoveredByContigs(hits_dict)
             inverted == [name \in Elements(ids) |->
                             _invert_list(CoveredOrEmpty(covered, name), lengths[name])]
         IN  [raised |-> \E name \in Elements(ids) : inverted[name].raised,
              covered |-> covered,
              not_covered |-> [name \in Elements(ids) |-> inverted[name].val]]

\* a faulty variant: the gaps are not restricted to the well covered positions
ShouldHaveAssembledAllGaps(ids, lengths, covered, ok) ==
    LET gaps == [name \in Elements(ids) |->
                    _invert_list(CoveredOrEmpty(covered, name), lengths[name])]
    IN  [raised |-> \E name \in Elements(ids) : gaps[name].raised,
         val |-> [name \in Elements(ids) |-> gaps[name].val]]

\* what Qc._calculate_should_have_assembled stores
ShouldHaveAssembled(ids, lengths, covered, ok) ==
    LET gaps == [name \in Elements(ids) |->
                    _invert_list(CoveredOrEmpty(covered, name), lengths[name])]
    IN  [raised |-> \E name \in Elements(ids) : gaps[name].raised,
         val |-> [name \in Elements(ids) |-> intersection(gaps[name].val, ok[name])]]

(***************************************************************************)
(* The scorers.  0.9 <= x / n <= 1.1 is a comparison of floats; on lengths *)
(* of sequences it agrees with 9 * n <= 10 * x /\ 10 * x <= 11 * n.        *)
(***************************************************************************)
\* 0.9 <= x / n
AtLeastNineTenths(x, n) == 9 * n <= 10 * x

\* x / n <= 1.1
AtMostElevenTenths(x, n) == 10 * x <= 11 * n

\* a faulty variant: assembled_ok is decided on the merged coverage of the
\* hits, however many there are
RefseqRecordMergedOk(hit_list, length) ==
    LET merged == merge_overlapping_in_list(RefCoordsOf(hit_list))
    IN  [hits |-> Len(hit_list),
         bases_assembled |-> length_sum_from_list(merged),
         assembled |-> AtLeastNineTenths(length_sum_from_list(merged), length),
         assembled_ok |-> /\ AtLeastNineTenths(length_sum_from_list(merged), length)
                          /\ AtMostElevenTenths(length_sum_from_list(merged), length)]

\* the record of a reference sequence with hits (lines 345-353)
RefseqRecord(hit_list, length) ==
    LET merged == merge_overlapping_in_list(RefCoordsOf(hit_list))
    IN  [hits |-> Len(hit_list),
         bases_assembled |-> length_sum_from_list(merged),
         assembled |-> AtLeastNineTenths(length_sum_from_list(merged), length),
         assembled_ok |-> /\ Len(hit_list) = 1
                          /\ AtLeastNineTenths(hit_list[1].hit_length_ref, length)
                          /\ AtMostElevenTenths(hit_list[1].hit_length_ref, length)]

\* what Qc._calculate_refseq_assembly_stats stores
RefseqAssemblyStats(empty, hits_dict, ids, lengths) ==
    LET refhits == IF empty THEN <<>> ELSE _hash_nucmer_hits_by_ref(hits_dict)
    IN  [name \in Elements(ids) |->
            IF name \in DOMAIN refhits
            THEN RefseqRecord(refhits[name], lengths[name])
            ELSE [hits |-> 0, bases_assembled |-> 0,
                  assembled |-> FALSE, assembled_ok |-> FALSE]]

\* the name _write_cds_seqs gives a CDS: id:start-end:strand, 1-based
CdsName(id, cds_coords, strand) == <<id, cds_coords[1] + 1, cds_coords[2] + 1, strand>>

\* the CDS lines of a GFF file are records [seqname, start, end, strand]
\* with 1-based coordinates; Qc._get_ref_cds_from_gff gives the 0-based
\* intervals of one sequence
CdsOfSeq(gff, id) ==
    LET lines == SelectSeq(gff, LAMBDA line : line.seqname = id)
    IN  [k \in 1..Len(lines) |->
            << <<lines[k].start - 1, lines[k].end - 1>>, lines[k].strand >>]

\* Qc._write_cds_seqs: one record per CDS, unless a name comes twice
RECURSIVE _write_cds_seqs(_, _, _)
_write_cds_seqs(cds_list, id, cds_stats) ==
    IF cds_list = <<>> THEN [error |-> "none", stats |-> cds_stats]
    ELSE LET cds_coords == Head(cds_list)[1]
             strand == Head(cds_list)[2]
             seqname == CdsName(id, cds_coords, strand)
         IN  IF seqname \in DOMAIN cds_stats
             THEN [error |-> "AssertionError", stats |-> cds_stats]
             ELSE _write_cds_seqs(Tail(cds_list), id,
                      [name \in DOMAIN cds_stats \cup {seqname} |->
                          IF name = seqname
                          THEN [ref_name |-> id,
                                ref_coords |-> cds_coords,
                                strand |-> strand,
                                length_in_ref |-> IntervalLen(cds_coords),
                                assembled |-> FALSE,
                                assembled_ok |-> FALSE]
                          ELSE cds_stats[name]])

\* Qc._gff_and_fasta_to_cds: the sequences of the reference fasta in order
RECURSIVE _gff_and_fasta_to_cds(_, _, _)
_gff_and_fasta_to_cds(gff, ids, cds_stats) ==
    IF ids = <<>> THEN [error |-> "none", stats |-> cds_stats]
    ELSE LET written == _write_cds_seqs(CdsOfSeq(gff, Head(ids)), Head(ids), cds_stats)
         IN  IF written.error # "none" THEN written
             ELSE _gff_and_fasta_to_cds(gff, Tail(ids), written.stats)

\* a faulty variant: the ORF of the first hit decides, however many hits there are
ScoreCdsFirstHit(record, hit_list) ==
    LET hit_coords == merge_overlapping_in_list(QryCoordsOf(hit_list))
        bases_assembled == length_sum_from_list(hit_coords)
    IN  [ref_name |-> record.ref_name,
         ref_coords |-> record.ref_coords,
         strand |-> record.strand,
         length_in_ref |-> record.length_in_ref,
         number_of_contig_hits |-> Len(hit_list),
         bases_assembled |-> bases_assembled,
         assembled |-> /\ AtLeastNineTenths(bases_assembled, record.length_in_ref)
                       /\ AtMostElevenTenths(bases_assembled, record.length_in_ref),
         assembled_ok |-> hit_list[1].has_orf]

\* the loop body of _calculate_cds_assembly_stats (lines 305-318); the CDS is
\* the query of its hits and the contig their reference; has_orf is what
\* _has_orf finds on the contig region of the hit
ScoreCds(record, hit_list) ==
    LET hit_coords == merge_overlapping_in_list(QryCoordsOf(hit_list))
        bases_assembled == length_sum_from_list(hit_coords)
    IN  [ref_name |-> record.ref_name,
         ref_coords |-> record.ref_coords,
         strand |-> record.strand,
         length_in_ref |-> record.length_in_ref,
         number_of_contig_hits |-> Len(hit_list),
         bases_assembled |-> bases_assembled,
         assembled |-> /\ AtLeastNineTenths(bases_assembled, record.length_in_ref)
                       /\ AtMostElevenTenths(bases_assembled, record.length_in_ref),
         assembled_ok |-> IF Len(hit_list) = 1 THEN hit_list[1].has_orf ELSE FALSE]

\* the keys of the dict _mummer_coords_file_to_dict builds, in the order they
\* were inserted: the query names in the order the coords file first has them
RECURSIVE KeysInOrder(_, _)
KeysInOrder(hit_list, seen) ==
    IF hit_list = <<>> THEN <<>>
    ELSE IF Head(hit_list).qry_name \in seen
         THEN KeysInOrder(Tail(hit_list), seen)
         ELSE <<Head(hit_list).qry_name>>
              \o KeysInOrder(Tail(hit_list), seen \cup {Head(hit_list).qry_name})

\* for cds_name, hit_list in hits.items(): the records are scored one after
\* the other; a hit of a CDS that has no record is a KeyError, which leaves
\* the records scored before it
RECURSIVE ScoreAllCds(_, _, _)
ScoreAllCds(cds_stats, hits_dict, cds_names) ==
    IF cds_names = <<>> THEN [error |-> "none", stats |-> cds_stats]
    ELSE IF Head(cds_names) \notin DOMAIN cds_stats
         THEN [error |-> "KeyError", stats |-> cds_stats]
         ELSE ScoreAllCds(
                  [cds_name \in DOMAIN cds_stats |->
                      IF cds_name = Head(cds_names)
                      THEN ScoreCds(cds_stats[cds_name], hits_dict[cds_name])
                      ELSE cds_stats[cds_name]],
                  hits_dict, Tail(cds_names))

\* what Qc._calculate_cds_assembly_stats stores, given the CDS lines of the reference
\* GFF, whether the CDS fasta exists already, and the hits nucmer reports
CdsAssemblyStats(empty, cds_stats, gff, ids, cds_fasta_exists, hit_list) ==
    IF empty THEN [error |-> "none", stats |-> cds_stats]
    ELSE LET written == IF cds_fasta_exists
                        THEN [error |-> "none", stats |-> cds_stats]
                        ELSE _gff_and_fasta_to_cds(gff, ids, cds_stats)
         IN  IF written.error # "none" THEN written
             ELSE ScoreAllCds(written.stats, _mummer_coords_file_to_dict(hit_list),
                              KeysInOrder(hit_list, {}))

(***************************************************************************)
(* The report.                                                             *)
(***************************************************************************)
stats_keys ==
    <<"ref_bases", "ref_sequences", "ref_bases_assembled", "ref_sequences_assembled",
      "ref_sequences_assembled_ok", "ref_bases_assembler_missed", "assembly_bases",
      "assembly_bases_in_ref", "assembly_contigs", "assembly_contigs_hit_ref",
      "assembly_bases_reads_disagree", "cds_number", "cds_assembled",
      "cds_assembled_ok">>

\* sum(...) over the values of a dict of numbers
RECURSIVE SumOf(_, _)
SumOf(d, keys) ==
    IF keys = {} THEN 0
    ELSE LET k == CHOOSE x \in keys : TRUE
         IN  d[k] + SumOf(d, keys \ {k})

\* sum(d.values())
SumValues(d) == SumOf(d, DOMAIN d)

\* sum([fastaq.intervals.length_sum_from_list(l) for l in d.values()])
SumLengths(d) == SumOf([k \in DOMAIN d |-> length_sum_from_list(d[k])], DOMAIN d)

\* sum([len(x) for x in d.values()])
SumLens(d) == SumOf([k \in DOMAIN d |-> Len(d[k])], DOMAIN d)

\* len([1 for x in d.values() if x[field]]) for the two flags of a record
CountAssembled(d) == Cardinality({k \in DOMAIN d : d[k].assembled})

CountAssembledOk(d) == Cardinality({k \in DOMAIN d : d[k].assembled_ok})

\* Qc._contigs_and_bases_that_hit_ref
_contigs_and_bases_that_hit_ref(hits_dict) ==
    LET bases == [name \in DOMAIN hits_dict |->
                     length_sum_from_list(
                         merge_overlapping_in_list(QryCoordsOf(hits_dict[name])))]
    IN  [total_bases |-> SumOf(bases, DOMAIN hits_dict),
         contigs |-> Cardinality(DOMAIN hits_dict)]

\* a faulty variant: the number of contigs that hit the reference is not reported
StatsWithoutContigsHit(self_) ==
    [self_.stats EXCEPT
        !["ref_bases"] = SumValues(self_.ref_lengths),
        !["ref_sequences"] = Cardinality(DOMAIN self_.ref_lengths),
        !["ref_bases_assembled"] = SumLengths(self_.ref_pos_covered_by_contigs),
        !["ref_sequences_assembled"] = CountAssembled(self_.refseq_assembly_stats),
        !["ref_sequences_assembled_ok"] = CountAssembledOk(self_.refseq_assembly_stats),
        !["ref_bases_assembler_missed"] = SumLengths(self_.should_have_assembled),
        !["assembly_bases"] = SumValues(self_.assembly_lengths),
        !["assembly_contigs"] = Cardinality(DOMAIN self_.assembly_lengths),
        !["assembly_bases_in_ref"] =
            _contigs_and_bases_that_hit_ref(self_.assembly_vs_ref_mummer_hits).total_bases,
        !["assembly_bases_reads_disagree"] = SumLens(self_.incorrect_assembly_bases),
        !["cds_number"] = Cardinality(DOMAIN self_.cds_assembly_stats),
        !["cds_assembled"] = CountAssembled(self_.cds_assembly_stats),
        !["cds_assembled_ok"] = CountAssembledOk(self_.cds_assembly_stats)]

\* what Qc._calculate_stats leaves in self.stats
Stats(self_) ==
    [self_.stats EXCEPT
        !["ref_bases"] = SumValues(self_.ref_lengths),
        !["ref_sequences"] = Cardinality(DOMAIN self_.ref_lengths),
        !["ref_bases_assembled"] = SumLengths(self_.ref_pos_covered_by_contigs),
        !["ref_sequences_assembled"] = CountAssembled(self_.refseq_assembly_stats),
        !["ref_sequences_assembled_ok"] = CountAssembledOk(self_.refseq_assembly_stats),
        !["ref_bases_assembler_missed"] = SumLengths(self_.should_have_assembled),
        !["assembly_bases"] = SumValues(self_.assembly_lengths),
        !["assembly_contigs"] = Cardinality(DOMAIN self_.assembly_lengths),
        !["assembly_bases_in_ref"] =
            _contigs_and_bases_that_hit_ref(self_.assembly_vs_ref_mummer_hits).total_bases,
        !["assembly_contigs_hit_ref"] =
            _contigs_and_bases_that_hit_ref(self_.assembly_vs_ref_mummer_hits).contigs,
        !["assembly_bases_reads_disagree"] = SumLens(self_.incorrect_assembly_bases),
        !["cds_number"] = Cardinality(DOMAIN self_.cds_assembly_stats),
        !["cds_assembled"] = CountAssembled(self_.cds_assembly_stats),
        !["cds_assembled_ok"] = CountAssembledOk(self_.cds_assembly_stats)]

(***************************************************************************)
(* The Qc object after construction.  A dict not filled yet, and an        *)
(* attribute not assigned yet, is the empty function <<>>; embl_dir and    *)
(* ref_db are "None" when not given.  The reads are given interleaved, so  *)
(* the constructor has split them into two files that _clean removes.      *)
(* ref_gff stands for the CDS lines of the file that attribute names.      *)
(***************************************************************************)
NotCalculated == [source |-> "unset", missing_reference_bases |-> None]

Constructed(embl, db, min_cov, contigs, reads_to_clean) ==
    [embl_dir |-> embl,
     ref_db |-> db,
     min_ref_cov |-> min_cov,
     files_to_clean |-> reads_to_clean,
     reads_fwd |-> "reads_1",
     reads_rev |-> "reads_2",
     threads |-> 1,
     assembly_is_empty |-> (DOMAIN contigs = {}),
     assembly_lengths |-> contigs,
     ref_ids |-> <<>>,
     ref_lengths |-> <<>>,
     ref_length_offsets |-> <<>>,
     ref_gff |-> <<>>,
     incorrect_assembly_bases |-> <<>>,
     low_cov_ref_regions |-> <<>>,
     low_cov_ref_regions_fwd |-> <<>>,
     low_cov_ref_regions_rev |-> <<>>,
     ok_cov_ref_regions |-> <<>>,
     ref_coverage_fwd |-> <<>>,
     ref_coverage_rev |-> <<>>,
     cds_assembly_stats |-> <<>>,
     refseq_assembly_stats |-> <<>>,
     assembly_vs_ref_mummer_hits |-> <<>>,
     ref_pos_covered_by_contigs |-> <<>>,
     ref_pos_not_covered_by_contigs |-> <<>>,
     should_have_assembled |-> <<>>,
     contig_placement |-> <<>>,
     gage_stats |-> NotCalculated,
     ratt_stats |-> NotCalculated,
     reapr_stats |-> NotCalculated,
     stats |-> [key \in Elements(stats_keys) |-> -1]]

\* a faulty variant: the gaps with read support are worked out before the
\* positions covered by contigs
StagesGapsBeforeCovered ==
    <<"_map_reads_to_assembly", "_choose_reference_genome", "_set_ref_seq_data",
      "_make_act_files", "_map_reads_to_reference",
      "_calculate_incorrect_assembly_bases", "_calculate_contig_placement",
      "_calculate_ref_read_coverage", "_calculate_ref_read_region_coverage",
      "_calculate_should_have_assembled", "_calculate_ref_positions_covered_by_contigs",
      "_calculate_cds_assembly_stats", "_calculate_refseq_assembly_stats",
      "_calculate_gage_stats", "_calculate_ratt_stats", "_calculate_reapr_stats",
      "_calculate_stats", "_make_R_plots", "_write_stats_txt", "_write_stats_tsv",
      "_clean", "returned">>

\* the steps of run(): the stages of _do_calculations in order, then the
\* plots, the two stats files and the clean-up
Stages ==
    <<"_map_reads_to_assembly", "_choose_reference_genome", "_set_ref_seq_data",
      "_make_act_files", "_map_reads_to_reference",
      "_calculate_incorrect_assembly_bases", "_calculate_contig_placement",
      "_calculate_ref_read_coverage", "_calculate_ref_read_region_coverage",
      "_calculate_ref_positions_covered_by_contigs", "_calculate_should_have_assembled",
      "_calculate_cds_assembly_stats", "_calculate_refseq_assembly_stats",
      "_calculate_gage_stats", "_calculate_ratt_stats", "_calculate_reapr_stats",
      "_calculate_stats", "_make_R_plots", "_write_stats_txt", "_write_stats_tsv",
      "_clean", "returned">>

\* the step that follows step s
After(s) == Stages[(CHOOSE i \in 1..Len(Stages) : Stages[i] = s) + 1]

\* the step s has been taken and returned
Done(s) ==
    \E i, j \in 1..Len(Stages) : Stages[i] = s /\ Stages[j] = pc /\ i < j

(***************************************************************************)
(* What the external tools and the input files can hand to the stages.     *)
(***************************************************************************)
\* the contigs of a non-empty assembly
Contigs == ("ctg1" :> MaxQryLen) @@ ("ctg2" :> 1)

\* the reference genomes: ref1 alone, or ref1 followed by a one-base ref2
RefGenomes ==
    {[ids |-> <<"ref1">>, lengths |-> ("ref1" :> n)] : n \in 1..MaxRefLen}
    \cup {[ids |-> <<"ref1", "ref2">>, lengths |-> ("ref1" :> n) @@ ("ref2" :> 1)] :
              n \in 1..MaxRefLen}

\* the loop of _set_ref_fa_data: the offset of each sequence in the
\* concatenated reference
RECURSIVE Offsets(_, _, _)
Offsets(ids, lengths, offset) ==
    IF ids = <<>> THEN <<>>
    ELSE (Head(ids) :> offset)
         @@ Offsets(Tail(ids), lengths, offset + lengths[Head(ids)])

\* a line of a nucmer coords file of contigs against the reference
ContigHit(qry, qs, qe, ref, rs, re) ==
    [qry_name |-> qry, qry_start |-> qs, qry_end |-> qe,
     ref_name |-> ref, ref_start |-> rs, ref_end |-> re,
     hit_length_ref |-> Max2(rs, re) - Min2(rs, re) + 1]

\* the coords files nucmer can write for the contigs: no hit, one contig
\* covering ref1, one contig on the first base, two contigs on the two ends
\* of ref1, and one contig hitting twice with the same bases, the second
\* time reversed on the last reference sequence
ContigHitFiles(ids, lengths) ==
    LET last == lengths["ref1"] - 1
        last_ref == ids[Len(ids)]
    IN  {<<>>,
         <<ContigHit("ctg1", 0, MaxQryLen - 1, "ref1", 0, last)>>,
         <<ContigHit("ctg1", 0, 0, "ref1", 0, 0)>>,
         <<ContigHit("ctg1", 0, MaxQryLen - 1, "ref1", 0, 0),
           ContigHit("ctg2", 0, 0, "ref1", last, last)>>,
         <<ContigHit("ctg1", 0, MaxQryLen - 1, "ref1", 0, last),
           ContigHit("ctg1", MaxQryLen - 1, 0, last_ref, 0, 0)>>}

\* a depth array of n positions, low (one read short of min_cov) at the
\* positions of the set low_at and at min_cov elsewhere
DepthArray(n, low_at, min_cov) ==
    [i \in 1..n |-> IF i \in low_at THEN min_cov - 1 ELSE min_cov]

\* the read depths of the reference: fine everywhere, low on the first base
\* of the forward strand, low on the last base of the reverse strand, low
\* everywhere
ReadDepths(ids, lengths, min_cov) ==
    {[fwd |-> [name \in Elements(ids) |-> DepthArray(lengths[name], {}, min_cov)],
      rev |-> [name \in Elements(ids) |-> DepthArray(lengths[name], {}, min_cov)]],
     [fwd |-> [name \in Elements(ids) |-> DepthArray(lengths[name], {1}, min_cov)],
      rev |-> [name \in Elements(ids) |-> DepthArray(lengths[name], {}, min_cov)]],
     [fwd |-> [name \in Elements(ids) |-> DepthArray(lengths[name], {}, min_cov)],
      rev |-> [name \in Elements(ids) |->
                  DepthArray(lengths[name], {lengths[name]}, min_cov)]],
     [fwd |-> [name \in Elements(ids) |->
                  DepthArray(lengths[name], 1..lengths[name], min_cov)],
      rev |-> [name \in Elements(ids) |->
                  DepthArray(lengths[name], 1..lengths[name], min_cov)]]}

\* what mapping.find_incorrect_ref_bases can report: nothing, or one base of ctg1
IncorrectBases == {<<>>, ("ctg1" :> <<0>>)}

\* a line of a nucmer coords file of CDSs against the contigs: the CDS bases
\* qs..qe aligned to the contig bases rs..re; has_orf is what _has_orf finds
\* on that contig region, an ORF of at least nine tenths of the CDS or none
CdsHitOnContig(cds_name, qs, qe, rs, re, orf) ==
    [qry_name |-> cds_name, qry_start |-> qs, qry_end |-> qe,
     ref_name |-> "ctg1", ref_start |-> rs, ref_end |-> re, has_orf |-> orf]

\* a hit without insertions or deletions
CdsHit(cds_name, qs, qe, orf) == CdsHitOnContig(cds_name, qs, qe, qs, qe, orf)

\* the CDS lines of the reference GFF with the hits nucmer finds for them:
\* no CDS; one CDS spanning ref1 with no hit, one hit with or without an
\* ORF, or two hits; a second one-base CDS on the last reference sequence,
\* hit or not; the same CDS line twice; and a CDS of two bases or more hit
\* on all but its last base, by a contig region one base longer (the contig
\* has a base more than the CDS there) that holds an ORF
CdsInputs(ids, lengths) ==
    LET length == lengths["ref1"]
        last_ref == ids[Len(ids)]
        line1 == [seqname |-> "ref1", start |-> 1, end |-> length, strand |-> "+"]
        line2 == [seqname |-> last_ref, start |-> 1, end |-> 1, strand |-> "-"]
        cds1 == CdsName("ref1", <<0, length - 1>>, "+")
        cds2 == CdsName(last_ref, <<0, 0>>, "-")
    IN  {[gff |-> <<>>, hits |-> <<>>],
         [gff |-> <<line1>>, hits |-> <<>>],
         [gff |-> <<line1>>, hits |-> <<CdsHit(cds1, 0, length - 1, TRUE)>>],
         [gff |-> <<line1>>, hits |-> <<CdsHit(cds1, 0, length - 1, FALSE)>>],
         [gff |-> <<line1>>, hits |-> <<CdsHit(cds1, 0, 0, TRUE),
                                        CdsHit(cds1, length - 1, length - 1, TRUE)>>],
         [gff |-> <<line1, line2>>, hits |-> <<CdsHit(cds1, 0, length - 1, TRUE)>>],
         [gff |-> <<line1, line2>>, hits |-> <<CdsHit(cds2, 0, 0, TRUE),
                                               CdsHit(cds1, length - 1, 0, FALSE)>>],
         [gff |-> <<line1, line1>>, hits |-> <<>>]}
        \cup (IF length >= 2
              THEN {[gff |-> <<line1>>,
                     hits |-> <<CdsHitOnContig(cds1, 0, length - 2, 0, length - 1,
                                               TRUE)>>]}
              ELSE {})

\* the CDS lines the reference GFF can hold
GffFiles(ids, lengths) == {input.gff : input \in CdsInputs(ids, lengths)}

(***************************************************************************)
(* run(): one action per step.  A step that raises ends the run: pc        *)
(* becomes "failed" and error names the exception.                         *)
(***************************************************************************)
Init ==
    /\ call = "none"
    /\ ret = <<>>
    /\ coords = <<>>
    /\ seq_length = 0
    /\ depths = <<>>
    /\ depths_rev = <<>>
    /\ hits = <<>>
    /\ kwargs = <<>>
    /\ processes = <<>>
    /\ \E config \in {<<"embl", "None">>, <<"None", "db">>, <<"embl", "db">>},
          contigs \in {<<>>, Contigs} :
           self = Constructed(config[1], config[2], DefaultMinRefCov, contigs,
                              <<"reads_1", "reads_2">>)
    /\ pc = Stages[1]
    /\ error = "none"
    \* an earlier run with the same output prefix may have left its BAM file
    /\ files \in {{"reads_1", "reads_2"}, {"reads_1", "reads_2", "assembly_bam"}}

Raise(exception) ==
    /\ pc' = "failed"
    /\ error' = exception
    /\ UNCHANGED <<self, files>>

_map_reads_to_assembly ==
    /\ pc = "_map_reads_to_assembly"
    /\ files' = IF self.assembly_is_empty THEN files ELSE files \cup {"assembly_bam"}
    /\ pc' = After(pc)
    /\ UNCHANGED <<self, error, call, ret, args>>

\* kraken either names the EMBL directory of a reference or returns None; the
\* Error raised for None is recorded as "ReferenceNotFound"
_choose_reference_genome ==
    /\ pc = "_choose_reference_genome"
    /\ IF self.embl_dir = "None"
       THEN IF self.ref_db = "None" \/ "assembly_bam" \notin files
            THEN Raise("AssertionError")
            ELSE \E chosen \in {"embl", "None"} :
                    IF chosen = "None"
                    THEN Raise("ReferenceNotFound")
                    ELSE /\ self' = [self EXCEPT !.embl_dir = chosen]
                         /\ files' = files \cup {"ref_info"}
                         /\ pc' = After(pc)
                         /\ UNCHANGED error
       ELSE /\ files' = files \cup {"ref_info"}
            /\ pc' = After(pc)
            /\ UNCHANGED <<self, error>>
    /\ UNCHANGED <<call, ret, args>>

_set_ref_seq_data ==
    /\ pc = "_set_ref_seq_data"
    /\ IF self.embl_dir = "None"
       THEN Raise("AssertionError")
       ELSE /\ \E genome \in RefGenomes :
                   \E gff \in GffFiles(genome.ids, genome.lengths) :
                       self' = [self EXCEPT
                                   !.ref_gff = gff,
                                   !.ref_ids = genome.ids,
                                   !.ref_lengths = genome.lengths,
                                   !.ref_length_offsets =
                                       Offsets(genome.ids, genome.lengths, 0)]
            /\ files' = files \cup {"ref_fasta", "ref_gff"}
            /\ pc' = After(pc)
            /\ UNCHANGED error
    /\ UNCHANGED <<call, ret, args>>

\* blast_for_act is left at its default, False
_make_act_files ==
    /\ pc = "_make_act_files"
    /\ pc' = After(pc)
    /\ UNCHANGED <<self, error, files, call, ret, args>>

_map_reads_to_reference ==
    /\ pc = "_map_reads_to_reference"
    /\ IF "ref_fasta" \notin files
       THEN Raise("AssertionError")
       ELSE /\ files' = files \cup {"ref_bam"}
            /\ pc' = After(pc)
            /\ UNCHANGED <<self, error>>
    /\ UNCHANGED <<call, ret, args>>

_calculate_incorrect_assembly_bases ==
    /\ pc = "_calculate_incorrect_assembly_bases"
    /\ \E found \in IncorrectBases :
           self' = [self EXCEPT !.incorrect_assembly_bases =
                                    IF self.assembly_is_empty THEN <<>> ELSE found]
    /\ pc' = After(pc)
    /\ UNCHANGED <<error, files, call, ret, args>>

_calculate_contig_placement ==
    /\ pc = "_calculate_contig_placement"
    /\ IF self.assembly_is_empty
       THEN UNCHANGED <<self, files>>
       ELSE /\ \E coords_file \in ContigHitFiles(self.ref_ids, self.ref_lengths) :
                   LET hits_dict == _mummer_coords_file_to_dict(coords_file)
                   IN  self' = [self EXCEPT
                                   !.assembly_vs_ref_mummer_hits = hits_dict,
                                   !.contig_placement =
                                       [qry_name \in DOMAIN hits_dict |->
                                           _contig_placement_in_reference(
                                               hits_dict[qry_name])]]
            /\ files' = files \cup {"assembly_vs_ref_coords"}
    /\ pc' = After(pc)
    /\ UNCHANGED <<error, call, ret, args>>

_calculate_ref_read_coverage ==
    /\ pc = "_calculate_ref_read_coverage"
    /\ IF \E k \in 1..Len(self.ref_ids) :
              \/ self.ref_ids[k] \in DOMAIN self.ref_coverage_fwd
              \/ \E j \in 1..(k - 1) : self.ref_ids[j] = self.ref_ids[k]
       THEN Raise("AssertionError")
       ELSE /\ \E read_depths \in ReadDepths(self.ref_ids, self.ref_lengths,
                                            self.min_ref_cov) :
                   self' = [self EXCEPT !.ref_coverage_fwd = read_depths.fwd,
                                        !.ref_coverage_rev = read_depths.rev]
            /\ files' = files \cup {"ref_bam"}
            /\ pc' = After(pc)
            /\ UNCHANGED error
    /\ UNCHANGED <<call, ret, args>>

_calculate_ref_read_region_coverage ==
    /\ pc = "_calculate_ref_read_region_coverage"
    /\ IF DOMAIN self.ref_coverage_fwd = {} \/ DOMAIN self.ref_coverage_rev = {}
       THEN Raise("AssertionError")
       ELSE LET region == RefReadRegionCoverage(self.ref_ids, self.ref_lengths,
                              self.ref_coverage_fwd, self.ref_coverage_rev,
                              self.min_ref_cov)
            IN  IF region.raised
                THEN Raise("Error")
                ELSE /\ self' = [self EXCEPT
                                    !.low_cov_ref_regions_fwd = region.low_fwd,
                                    !.low_cov_ref_regions_rev = region.low_rev,
                                    !.ok_cov_ref_regions = region.ok,
                                    !.low_cov_ref_regions = region.low]
                     /\ pc' = After(pc)
                     /\ UNCHANGED <<error, files>>
    /\ UNCHANGED <<call, ret, args>>

_calculate_ref_positions_covered_by_contigs ==
    /\ pc = "_calculate_ref_positions_covered_by_contigs"
    /\ LET positions == RefPositionsCoveredByContigs(self.assembly_is_empty,
                            self.assembly_vs_ref_mummer_hits, self.ref_ids,
                            self.ref_lengths)
       IN  IF positions.raised
           THEN Raise("Error")
           ELSE /\ self' = [self EXCEPT
                               !.ref_pos_covered_by_contigs = positions.covered,
                               !.ref_pos_not_covered_by_contigs = positions.not_covered]
                /\ pc' = After(pc)
                /\ UNCHANGED <<error, files>>
    /\ UNCHANGED <<call, ret, args>>

_calculate_should_have_assembled ==
    /\ pc = "_calculate_should_have_assembled"
    /\ LET should == ShouldHaveAssembled(self.ref_ids, self.ref_lengths,
                         self.ref_pos_covered_by_contigs, self.ok_cov_ref_regions)
       IN  IF should.raised
           THEN Raise("Error")
           ELSE /\ self' = [self EXCEPT !.should_have_assembled = should.val]
                /\ pc' = After(pc)
                /\ UNCHANGED <<error, files>>
    /\ UNCHANGED <<call, ret, args>>

_calculate_cds_assembly_stats ==
    /\ pc = "_calculate_cds_assembly_stats"
    /\ \E input \in {i \in CdsInputs(self.ref_ids, self.ref_lengths) :
                           i.gff = self.ref_gff} :
           LET scored == CdsAssemblyStats(self.assembly_is_empty,
                             self.cds_assembly_stats, input.gff, self.ref_ids,
                             "ref_cds_fasta" \in files, input.hits)
           IN  /\ self' = [self EXCEPT !.cds_assembly_stats = scored.stats]
               /\ files' = IF self.assembly_is_empty THEN files
                           ELSE IF scored.error = "AssertionError"
                           THEN files \cup {"ref_cds_fasta"}
                           ELSE files \cup {"ref_cds_fasta", "cds_coords"}
               /\ IF scored.error # "none"
                  THEN pc' = "failed" /\ error' = scored.error
                  ELSE pc' = After(pc) /\ UNCHANGED error
    /\ UNCHANGED <<call, ret, args>>

_calculate_refseq_assembly_stats ==
    /\ pc = "_calculate_refseq_assembly_stats"
    /\ IF \E k \in 1..Len(self.ref_ids) :
              \/ self.ref_ids[k] \in DOMAIN self.refseq_assembly_stats
              \/ \E j \in 1..(k - 1) : self.ref_ids[j] = self.ref_ids[k]
       THEN Raise("AssertionError")
       ELSE /\ self' = [self EXCEPT !.refseq_assembly_stats =
                           RefseqAssemblyStats(self.assembly_is_empty,
                               self.assembly_vs_ref_mummer_hits, self.ref_ids,
                               self.ref_lengths)]
            /\ pc' = After(pc)
            /\ UNCHANGED <<error, files>>
    /\ UNCHANGED <<call, ret, args>>

_calculate_gage_stats ==
    /\ pc = "_calculate_gage_stats"
    /\ self' = [self EXCEPT !.gage_stats =
                   IF self.assembly_is_empty
                   THEN [source |-> "dummy",
                         missing_reference_bases |-> SumValues(self.ref_lengths)]
                   ELSE [source |-> "gage", missing_reference_bases |-> None]]
    /\ pc' = After(pc)
    /\ UNCHANGED <<error, files, call, ret, args>>

_calculate_ratt_stats ==
    /\ pc = "_calculate_ratt_stats"
    /\ self' = [self EXCEPT !.ratt_stats =
                   [source |-> IF self.assembly_is_empty THEN "dummy" ELSE "ratt",
                    missing_reference_bases |-> None]]
    /\ pc' = After(pc)
    /\ UNCHANGED <<error, files, call, ret, args>>

\* reapr is left at its default, False
_calculate_reapr_stats ==
    /\ pc = "_calculate_reapr_stats"
    /\ self' = [self EXCEPT !.reapr_stats =
                   [source |-> "dummy", missing_reference_bases |-> None]]
    /\ pc' = After(pc)
    /\ UNCHANGED <<error, files, call, ret, args>>

_calculate_stats ==
    /\ pc = "_calculate_stats"
    /\ self' = [self EXCEPT !.stats = Stats(self)]
    /\ pc' = After(pc)
    /\ UNCHANGED <<error, files, call, ret, args>>

_make_R_plots ==
    /\ pc = "_make_R_plots"
    /\ IF DOMAIN self.ref_coverage_fwd = {} \/ DOMAIN self.ref_coverage_rev = {}
       THEN Raise("AssertionError")
       ELSE /\ files' = files \cup {"contig_placement_R", "contig_placement_pdf",
                                    "read_coverage_on_ref_fwd",
                                    "read_coverage_on_ref_rev"}
            /\ pc' = After(pc)
            /\ UNCHANGED <<self, error>>
    /\ UNCHANGED <<call, ret, args>>

_write_stats_txt ==
    /\ pc = "_write_stats_txt"
    /\ files' = files \cup {"stats_txt"}
    /\ pc' = After(pc)
    /\ UNCHANGED <<self, error, call, ret, args>>

_write_stats_tsv ==
    /\ pc = "_write_stats_tsv"
    /\ files' = files \cup {"stats_tsv"}
    /\ pc' = After(pc)
    /\ UNCHANGED <<self, error, call, ret, args>>

_clean ==
    /\ pc = "_clean"
    /\ IF \E k \in 1..Len(self.files_to_clean) : self.files_to_clean[k] \notin files
       THEN Raise("FileNotFoundError")
       ELSE /\ files' = files \ Elements(self.files_to_clean)
            /\ pc' = After(pc)
            /\ UNCHANGED <<self, error>>
    /\ UNCHANGED <<call, ret, args>>

\* the steps that run an external program or write a file in this state
RunsExternalTool ==
    \/ pc \in {"_set_ref_seq_data", "_map_reads_to_reference",
               "_calculate_ref_read_coverage", "_make_R_plots",
               "_write_stats_txt", "_write_stats_tsv"}
    \/ /\ ~self.assembly_is_empty
       /\ pc \in {"_map_reads_to_assembly", "_calculate_incorrect_assembly_bases",
                  "_calculate_contig_placement", "_calculate_cds_assembly_stats",
                  "_calculate_gage_stats", "_calculate_ratt_stats"}
    \/ /\ pc = "_choose_reference_genome"
       /\ self.embl_dir = "None"
       /\ self.ref_db # "None"
       /\ "assembly_bam" \in files

\* common.syscall raises when the program it runs fails; so do the readers
\* and writers of files.  What a failing program leaves behind is not kept.
ExternalToolFails ==
    /\ RunsExternalTool
    /\ pc' = "failed"
    /\ error' = "ExternalError"
    /\ UNCHANGED <<self, files, call, ret, args>>

Next ==
    \/ _map_reads_to_assembly
    \/ _choose_reference_genome
    \/ _set_ref_seq_data
    \/ _make_act_files
    \/ _map_reads_to_reference
    \/ _calculate_incorrect_assembly_bases
    \/ _calculate_contig_placement
    \/ _calculate_ref_read_coverage
    \/ _calculate_ref_read_region_coverage
    \/ _calculate_ref_positions_covered_by_contigs
    \/ _calculate_should_have_assembled
    \/ _calculate_cds_assembly_stats
    \/ _calculate_refseq_assembly_stats
    \/ _calculate_gage_stats
    \/ _calculate_ratt_stats
    \/ _calculate_reapr_stats
    \/ _calculate_stats
    \/ _make_R_plots
    \/ _write_stats_txt
    \/ _write_stats_tsv
    \/ _clean
    \/ ExternalToolFails

Spec == Init /\ [][Next]_vars

(***************************************************************************)
(* The methods explored one call at a time: a Qc object on which run() is  *)
(* not under way, arguments drawn from bounded sets, one method applied.   *)
(***************************************************************************)
\* a constructed Qc object with the given threshold and contigs
Idle(min_cov, contigs) ==
    /\ self = Constructed("embl", "None", min_cov, contigs, <<>>)
    /\ pc = "idle"
    /\ error = "none"
    /\ files = {}
    /\ kwargs = <<>>
    /\ processes = <<>>

IntervalsOver(n) == {iv \in (0..(n - 1)) \X (0..(n - 1)) : iv[1] <= iv[2]}

ListsOver(S, n) == UNION {[1..k -> S] : k \in 0..n}

Depths == {0, 2, DefaultMinRefCov - 1, DefaultMinRefCov, 10}

MinCovs == {1, DefaultMinRefCov}

\* the depth array of the coverage example
ExampleDepths == <<10, 10, 2, 2, 2, 10, 0, 10>>

InitIv ==
    /\ call = "none"
    /\ ret = <<>>
    /\ hits = <<>>
    /\ depths_rev = <<>>
    /\ \/ /\ seq_length \in 1..MaxSeqLen
          /\ coords \in ListsOver(IntervalsOver(seq_length), MaxIvs)
          /\ depths = <<>>
          /\ Idle(DefaultMinRefCov, Contigs)
       \/ /\ seq_length = 0
          /\ coords = <<>>
          /\ depths \in ListsOver(Depths, MaxCovLen) \cup {ExampleDepths}
          /\ \E min_cov \in MinCovs : Idle(min_cov, Contigs)

\* the hits' intervals are merged, then inverted, as in
\* _calculate_ref_positions_covered_by_contigs
MergeThenInvert ==
    /\ call = "none"
    /\ seq_length > 0
    /\ call' = "merge_invert"
    /\ ret' = LET merged == merge_overlapping_in_list(coords)
              IN  [merged |-> merged, inverted |-> _invert_list(merged, seq_length)]
    /\ UNCHANGED <<args, qc>>

\* invert(merge(invert(X, L)), L)
InvertMergeInvert ==
    /\ call = "none"
    /\ seq_length > 0
    /\ call' = "invert_merge_invert"
    /\ ret' = LET inner == _invert_list(coords, seq_length)
              IN  IF inner.raised THEN inner
                  ELSE _invert_list(merge_overlapping_in_list(inner.val), seq_length)
    /\ UNCHANGED <<args, qc>>

\* invert(merge(invert(merge(X), L)), L)
InvertMergeInvertOfMerged ==
    /\ call = "none"
    /\ seq_length > 0
    /\ call' = "invert_merge_invert_merged"
    /\ ret' = LET inner == _invert_list(merge_overlapping_in_list(coords), seq_length)
              IN  IF inner.raised THEN inner
                  ELSE _invert_list(merge_overlapping_in_list(inner.val), seq_length)
    /\ UNCHANGED <<args, qc>>

LowCovIntervals ==
    /\ call = "none"
    /\ seq_length = 0
    /\ call' = "low_cov"
    /\ ret' = _coverage_list_to_low_cov_intervals(depths, self.min_ref_cov)
    /\ UNCHANGED <<args, qc>>

NextIv ==
    \/ MergeThenInvert
    \/ InvertMergeInvert
    \/ InvertMergeInvertOfMerged
    \/ LowCovIntervals

SpecIv == InitIv /\ [][NextIv]_vars

\* where the hits of the explored groups lie on the reference
RefPlacements == {<<"ref1", 0, 1>>, <<"ref1", 2, 3>>}

\* the hits of one contig of length n, on either strand of the query
HitsOfContig(n) ==
    {[qry_name |-> "ctg1", qry_start |-> q[1], qry_end |-> q[2],
      ref_name |-> r[1], ref_start |-> r[2], ref_end |-> r[3]] :
        q \in (0..(n - 1)) \X (0..(n - 1)), r \in RefPlacements}

InitHits ==
    /\ call = "none"
    /\ ret = <<>>
    /\ coords = <<>>
    /\ seq_length = 0
    /\ depths = <<>>
    /\ depths_rev = <<>>
    /\ hits \in ListsOver(HitsOfContig(MaxQryLen), MaxGroup)
    /\ Idle(DefaultMinRefCov, Contigs)

Classify ==
    /\ call = "none"
    /\ call' = "classify"
    /\ ret' = _get_unique_and_repetitive_from_contig_hits(hits)
    /\ UNCHANGED <<args, qc>>

NextHits == Classify

SpecHits == InitHits /\ [][NextHits]_vars

\* the hits of a contig of two bases that are placed: on one base or on both,
\* on either strand, on the reference sequence ref1 or ref2
PlacedHits ==
    {[qry_name |-> "ctg1", qry_start |-> q[1], qry_end |-> q[2],
      ref_name |-> r, ref_start |-> 0, ref_end |-> 1] :
        q \in {<<0, 0>>, <<1, 1>>, <<0, 1>>, <<1, 0>>}, r \in {"ref1", "ref2"}}

InitPlace ==
    /\ call = "none"
    /\ ret = <<>>
    /\ coords = <<>>
    /\ seq_length = 0
    /\ depths = <<>>
    /\ depths_rev = <<>>
    /\ hits \in ListsOver(PlacedHits, MaxPlaced)
    /\ Idle(DefaultMinRefCov, Contigs)

Place ==
    /\ call = "none"
    /\ call' = "place"
    /\ ret' = _contig_placement_in_reference(hits)
    /\ UNCHANGED <<args, qc>>

NextPlace == Place

SpecPlace == InitPlace /\ [][NextPlace]_vars

\* the hits of contig ctg1 on a reference sequence ref1 of length n
HitsOnRef(n) ==
    {[qry_name |-> "ctg1", qry_start |-> iv[1], qry_end |-> iv[2],
      ref_name |-> "ref1", ref_start |-> iv[1], ref_end |-> iv[2]] :
        iv \in IntervalsOver(n)}

\* depths just below and at the threshold
DepthsAtThreshold == {DefaultMinRefCov - 1, DefaultMinRefCov}

\* an empty assembly has no hits
InitGap ==
    /\ call = "none"
    /\ ret = <<>>
    /\ coords = <<>>
    /\ seq_length \in 1..MaxRefLen
    /\ depths \in [1..seq_length -> DepthsAtThreshold]
    /\ depths_rev \in [1..seq_length -> DepthsAtThreshold]
    /\ \/ /\ hits \in ListsOver(HitsOnRef(seq_length), MaxRefHits)
          /\ Idle(DefaultMinRefCov, Contigs)
       \/ /\ hits = <<>>
          /\ Idle(DefaultMinRefCov, <<>>)

\* _calculate_ref_read_region_coverage,
\* _calculate_ref_positions_covered_by_contigs and
\* _calculate_should_have_assembled, one after the other, for the reference
\* sequence ref1 with the drawn depths and hits
GapAnalysis ==
    /\ call = "none"
    /\ call' = "gap"
    /\ ret' = LET ids == <<"ref1">>
                  lengths == ("ref1" :> seq_length)
                  region == RefReadRegionCoverage(ids, lengths, ("ref1" :> depths),
                                ("ref1" :> depths_rev), self.min_ref_cov)
                  positions == RefPositionsCoveredByContigs(self.assembly_is_empty,
                                   _mummer_coords_file_to_dict(hits), ids, lengths)
                  should == ShouldHaveAssembled(ids, lengths, positions.covered,
                                                region.ok)
              IN  [raised |-> region.raised \/ positions.raised \/ should.raised,
                   ok |-> region.ok["ref1"],
                   covered |-> CoveredOrEmpty(positions.covered, "ref1"),
                   not_covered |-> positions.not_covered["ref1"],
                   should_have_assembled |-> should.val["ref1"]]
    /\ UNCHANGED <<args, qc>>

NextGap == GapAnalysis

SpecGap == InitGap /\ [][NextGap]_vars

\* the lengths of the CDSs scored
CdsLengths == {10, 300}

\* where the hits of a CDS of length n lie on it: from its start or its
\* middle, up to its middle, to just under, at and over nine tenths of it,
\* and to its end
CdsHitCoords(n) ==
    {iv \in {0, n \div 2}
            \X {n \div 2 - 1, (9 * n) \div 10 - 2, (9 * n) \div 10 - 1,
                n - n \div 60 - 1, n - 1} : iv[1] <= iv[2]}

\* the hits of the CDS spanning a reference sequence of length n, one of
\* them on the reverse strand
HitsOfCds(n) ==
    {CdsHit(CdsName("ref1", <<0, n - 1>>, "+"), iv[1], iv[2], orf) :
         iv \in CdsHitCoords(n) \cup {<<n - 1, 0>>}, orf \in BOOLEAN}

InitCds ==
    /\ call = "none"
    /\ ret = <<>>
    /\ coords = <<>>
    /\ seq_length \in CdsLengths
    /\ depths = <<>>
    /\ depths_rev = <<>>
    /\ hits \in ListsOver(HitsOfCds(seq_length), MaxCdsHits)
    /\ Idle(DefaultMinRefCov, Contigs)

\* _calculate_cds_assembly_stats for a reference ref1 of length seq_length
\* whose GFF has one CDS spanning it, and the drawn hits
CdsStats ==
    /\ call = "none"
    /\ call' = "cds"
    /\ ret' = CdsAssemblyStats(self.assembly_is_empty, self.cds_assembly_stats,
                  <<[seqname |-> "ref1", start |-> 1, end |-> seq_length,
                     strand |-> "+"]>>,
                  <<"ref1">>, FALSE, hits)
    /\ UNCHANGED <<args, qc>>

NextCds == CdsStats

SpecCds == InitCds /\ [][NextCds]_vars

\* the lengths of the reference sequences scored
RefLengths == {10, 5000}

\* where the hits lie on a reference sequence of length n in the object's
\* ref_lengths: from its start or its middle, up to its middle, to just
\* under and at nine tenths of it, to 91% and 95% of it, to its end, and
\* past its end to eleven tenths of it and one base more.  The method takes
\* the hits and the lengths as it finds them in the object: nothing in it
\* keeps a hit within the length.
RefHitCoords(n) ==
    {iv \in {0, n \div 2}
            \X {n \div 2 - 1, (9 * n) \div 10 - 2, (9 * n) \div 10 - 1,
                (91 * n) \div 100 - 1, (95 * n) \div 100 - 1, n - 1,
                (11 * n) \div 10 - 1, (11 * n) \div 10} : iv[1] <= iv[2]}

\* the hits of the contigs on the reference sequence ref1
HitsOfRef(n) ==
    {ContigHit("ctg1", 0, iv[2] - iv[1], "ref1", iv[1], iv[2]) : iv \in RefHitCoords(n)}

InitRef ==
    /\ call = "none"
    /\ ret = <<>>
    /\ coords = <<>>
    /\ seq_length \in RefLengths
    /\ depths = <<>>
    /\ depths_rev = <<>>
    /\ \/ /\ hits \in ListsOver(HitsOfRef(seq_length), MaxRefHits)
          /\ Idle(DefaultMinRefCov, Contigs)
       \/ /\ hits = <<>>
          /\ Idle(DefaultMinRefCov, <<>>)

\* _calculate_refseq_assembly_stats for the reference sequence ref1 of length
\* seq_length and the drawn hits
RefseqStats ==
    /\ call = "none"
    /\ call' = "refseq"
    /\ ret' = RefseqAssemblyStats(self.assembly_is_empty,
                  _mummer_coords_file_to_dict(hits), <<"ref1">>,
                  ("ref1" :> seq_length))
    /\ UNCHANGED <<args, qc>>

NextRef == RefseqStats

SpecRef == InitRef /\ [][NextRef]_vars

(***************************************************************************)
(* Qc.__init__ (lines 39-159), one action per group of statements, pc at   *)
(* the line the constructor is about to run.  A gunzip process is          *)
(* "created", then "running" from start(), "finished" when gunzip has      *)
(* exited, and "joined" once join() has returned.                          *)
(***************************************************************************)
\* the values of the threads parameter
Threads == 1..MaxThreads

\* str.endswith('.gz') on the names the reads can have
EndsWithGz(name) == name \in {"fwd.fq.gz", "rev.fq.gz"}

\* the arguments of Qc(...): files_exist says whether every file named
\* exists, assembly whether the assembly fasta holds contigs
Kwargs ==
    [embl_dir : {"None", "embl"},
     ref_db : {"None", "db"},
     reads_fr : {"None", "fr.fq"},
     reads_fwd : {"None", "fwd.fq", "fwd.fq.gz"},
     reads_rev : {"None", "rev.fq", "rev.fq.gz"},
     threads : Threads,
     files_exist : BOOLEAN,
     assembly : {"empty", "contigs"}]

InitNew ==
    /\ call = "none"
    /\ ret = <<>>
    /\ coords = <<>>
    /\ seq_length = 0
    /\ depths = <<>>
    /\ depths_rev = <<>>
    /\ hits = <<>>
    /\ kwargs \in Kwargs
    /\ processes = <<>>
    /\ self = <<>>
    /\ pc = "L39"
    /\ error = "none"
    /\ files = {}

\* lines 39-46
CheckReference ==
    /\ pc = "L39"
    /\ IF kwargs.embl_dir = "None" /\ kwargs.ref_db = "None"
       THEN Raise("Error")
       ELSE /\ self' = [embl_dir |-> kwargs.embl_dir, ref_db |-> kwargs.ref_db]
            /\ pc' = "L48"
            /\ UNCHANGED <<error, files>>
    /\ UNCHANGED <<call, ret, args>>

\* lines 48-72
CheckFiles ==
    /\ pc = "L48"
    /\ IF ~kwargs.files_exist
       THEN Raise("Error")
       ELSE /\ self' = [embl_dir |-> self.embl_dir,
                        ref_db |-> self.ref_db,
                        reads_fwd |-> kwargs.reads_fwd,
                        reads_rev |-> kwargs.reads_rev,
                        threads |-> kwargs.threads,
                        files_to_clean |-> <<>>]
            /\ pc' = "L74"
            /\ UNCHANGED <<error, files>>
    /\ UNCHANGED <<call, ret, args>>

\* lines 74-79: fastaq.tasks.deinterleave writes the two files
Deinterleave ==
    /\ pc = "L74"
    /\ IF kwargs.reads_fr # "None"
       THEN /\ self' = [self EXCEPT !.reads_fwd = "reads_1",
                                    !.reads_rev = "reads_2",
                                    !.files_to_clean = <<"reads_1", "reads_2">>]
            /\ files' = files \cup {"reads_1", "reads_2"}
       ELSE UNCHANGED <<self, files>>
    /\ pc' = "L81"
    /\ UNCHANGED <<error, call, ret, args>>

\* lines 81-82
CheckReads ==
    /\ pc = "L81"
    /\ IF ~(\/ "None" \notin {self.reads_fwd, self.reads_rev}
            \/ kwargs.reads_fr # "None")
       THEN Raise("Error")
       ELSE /\ pc' = "L87"
            /\ UNCHANGED <<self, error, files>>
    /\ UNCHANGED <<call, ret, args>>

\* a faulty variant: the first process is not joined before the second starts
JoinsFirstBeforeSecondNever(threads) == FALSE

\* line 106
JoinsFirstBeforeSecond(threads) == threads = 1

\* lines 87-101 and 104: the list of processes, then the branch on its length
MakeProcesses ==
    /\ pc = "L87"
    /\ LET fwd_gz == EndsWithGz(self.reads_fwd)
           rev_gz == EndsWithGz(self.reads_rev)
           made == (IF fwd_gz THEN <<"created">> ELSE <<>>)
                   \o (IF rev_gz THEN <<"created">> ELSE <<>>)
       IN  /\ processes' = made
           /\ self' = [self EXCEPT
                          !.reads_fwd = IF fwd_gz THEN "reads_1" ELSE @,
                          !.reads_rev = IF rev_gz THEN "reads_2" ELSE @,
                          !.files_to_clean =
                              @ \o (IF fwd_gz THEN <<"reads_1">> ELSE <<>>)
                                \o (IF rev_gz THEN <<"reads_2">> ELSE <<>>)]
           /\ pc' = IF Len(made) = 1 THEN "L102"
                    ELSE IF Len(made) = 2 THEN "L105"
                    ELSE "L113"
    /\ UNCHANGED <<error, files, call, ret, coords, seq_length, depths,
                   depths_rev, hits, kwargs>>

\* processes[i].start(), at line `at`, going on to line `to`
Start(at, i, to) ==
    /\ pc = at
    /\ processes' = [processes EXCEPT ![i + 1] = "running"]
    /\ pc' = to
    /\ UNCHANGED <<self, error, files, call, ret, coords, seq_length, depths,
                   depths_rev, hits, kwargs>>

\* processes[i].join(), at line `at`, going on to line `to`: returns once the
\* process has exited
Join(at, i, to) ==
    /\ pc = at
    /\ processes[i + 1] = "finished"
    /\ processes' = [processes EXCEPT ![i + 1] = "joined"]
    /\ pc' = to
    /\ UNCHANGED <<self, error, files, call, ret, coords, seq_length, depths,
                   depths_rev, hits, kwargs>>

\* lines 102-103: the only process
StartOnly == Start("L102", 0, "L103")

JoinOnly == Join("L103", 0, "L113")

\* lines 105-111: two processes
StartFirst ==
    Start("L105", 0, IF JoinsFirstBeforeSecond(self.threads) THEN "L107" ELSE "L108")

JoinFirstEarly == Join("L107", 0, "L108")

StartSecond == Start("L108", 1, "L109")

JoinSecond == Join("L109", 1, IF self.threads > 1 THEN "L111" ELSE "L113")

JoinFirstLate == Join("L111", 0, "L113")

\* unzip_file in a started process: gunzip writes the new reads file and the
\* process exits, whatever the constructor is doing meanwhile
Unzip ==
    /\ \E i \in 1..Len(processes) :
           /\ processes[i] = "running"
           /\ processes' = [processes EXCEPT ![i] = "finished"]
           /\ files' = files \cup {IF i = 1 /\ EndsWithGz(kwargs.reads_fwd)
                                   THEN "reads_1" ELSE "reads_2"}
    /\ UNCHANGED <<self, pc, error, call, ret, coords, seq_length, depths,
                   depths_rev, hits, kwargs>>

\* lines 113-159; _set_assembly_fasta_data runs samtools faidx on an assembly
\* that is not empty
FinishConstruction ==
    /\ pc = "L113"
    /\ self' = [Constructed(self.embl_dir, self.ref_db, DefaultMinRefCov,
                            IF kwargs.assembly = "empty" THEN <<>> ELSE Contigs,
                            self.files_to_clean)
                    EXCEPT !.reads_fwd = self.reads_fwd,
                           !.reads_rev = self.reads_rev,
                           !.threads = self.threads]
    /\ files' = IF kwargs.assembly = "empty" THEN files
                ELSE files \cup {"assembly_fai"}
    /\ pc' = "constructed"
    /\ UNCHANGED <<error, call, ret, args>>

NextNew ==
    \/ CheckReference
    \/ CheckFiles
    \/ Deinterleave
    \/ CheckReads
    \/ MakeProcesses
    \/ StartOnly
    \/ JoinOnly
    \/ StartFirst
    \/ JoinFirstEarly
    \/ StartSecond
    \/ JoinSecond
    \/ JoinFirstLate
    \/ Unzip
    \/ FinishConstruction

SpecNew == InitNew /\ [][NextNew]_vars

(***************************************************************************)
(* Claims on run() (checked under Spec).                                   *)
(***************************************************************************)
\* C1: once _do_calculations has completed, no key of stats still holds the
\* initial -1: each of the fourteen keys has been given a count or a sum.
C1_NoStatLeftUnset ==
    Done("_calculate_stats") =>
        \A k \in 1..Len(stats_keys) :
            self.stats[stats_keys[k]] # -1 /\ self.stats[stats_keys[k]] >= 0

\* the calculations have completed on an empty assembly
C1_Witness ==
    /\ Done("_calculate_stats")
    /\ self.assembly_is_empty
    /\ self.stats["ref_bases"] > 0
    /\ self.stats["assembly_contigs_hit_ref"] = 0

\* C2 as stated: with an empty assembly no stage ends the run by raising or
\* by a failed assertion, whether an EMBL directory is given or only a
\* reference database.
C2_EmptyAssemblyNeverRaises ==
    self.assembly_is_empty => error \notin {"AssertionError", "Error", "KeyError"}

\* C3: with an empty assembly, once the stages that fill them have run,
\* every reference sequence has ref_pos_not_covered_by_contigs = [(0, L-1)],
\* the reference record hits = 0, bases_assembled = 0, assembled = false,
\* assembled_ok = false, and should_have_assembled equal to
\* ok_cov_ref_regions.
C3_EmptyAssemblyLeavesReferenceUncovered ==
    (self.assembly_is_empty /\ Done("_calculate_refseq_assembly_stats")) =>
        /\ DOMAIN self.ref_pos_not_covered_by_contigs = Elements(self.ref_ids)
        /\ DOMAIN self.refseq_assembly_stats = Elements(self.ref_ids)
        /\ DOMAIN self.should_have_assembled = Elements(self.ref_ids)
        /\ \A name \in Elements(self.ref_ids) :
               /\ self.ref_pos_not_covered_by_contigs[name]
                      = << <<0, self.ref_lengths[name] - 1>> >>
               /\ self.refseq_assembly_stats[name]
                      = [hits |-> 0, bases_assembled |-> 0,
                         assembled |-> FALSE, assembled_ok |-> FALSE]
               /\ self.should_have_assembled[name] = self.ok_cov_ref_regions[name]

\* an empty assembly against two reference sequences, the first of them with
\* good read depth on a part of it only
C3_Witness ==
    /\ self.assembly_is_empty
    /\ Done("_calculate_refseq_assembly_stats")
    /\ Len(self.ref_ids) = 2
    /\ self.ref_lengths["ref1"] > 1
    /\ self.should_have_assembled["ref1"] = << <<1, self.ref_lengths["ref1"] - 1>> >>

(***************************************************************************)
(* Claims on the interval and coverage methods (checked under SpecIv).     *)
(***************************************************************************)
\* position p lies in one of the intervals of l
Covers(l, p) == \E k \in 1..Len(l) : l[k][1] <= p /\ p <= l[k][2]

\* C4: _coverage_list_to_low_cov_intervals returns exactly the maximal runs
\* of positions whose depth is strictly below min_ref_cov, in increasing
\* order: a position is in a returned interval iff its depth is below the
\* threshold, the intervals lie in the array, are disjoint and non-adjacent,
\* a run reaching the last position is closed at the array end, and the
\* example array with threshold 5 gives [(2,4),(6,6)].
C4_LowCovIntervalsAreMaximalRuns ==
    call = "low_cov" =>
        /\ \A p \in 0..(Len(depths) - 1) :
               Covers(ret, p) <=> depths[p + 1] < self.min_ref_cov
        /\ \A k \in 1..Len(ret) :
               0 <= ret[k][1] /\ ret[k][1] <= ret[k][2] /\ ret[k][2] <= Len(depths) - 1
        /\ \A k \in 1..(Len(ret) - 1) : ret[k][2] + 1 < ret[k + 1][1]
        /\ (depths = ExampleDepths /\ self.min_ref_cov = 5)
               => ret = << <<2, 4>>, <<6, 6>> >>

\* two low-depth runs, the second one reaching the last position of the array
C4_Witness ==
    /\ call = "low_cov"
    /\ Len(ret) = 2
    /\ ret[2][2] = Len(depths) - 1
    /\ ret[2][1] < ret[2][2]

\* C6: total_length(merge(A)) + total_length(_invert_list(merge(A), L)) = L
\* for every interval list A over a sequence of length L; the empty list
\* inverts to the single interval (0, L-1) and full coverage to the empty list.
C6_CoveredPlusNotCoveredIsLength ==
    call = "merge_invert" =>
        /\ ~ret.inverted.raised
        /\ length_sum_from_list(ret.merged)
               + length_sum_from_list(ret.inverted.val) = seq_length
        /\ (coords = <<>> => ret.inverted.val = << <<0, seq_length - 1>> >>)
        /\ (length_sum_from_list(ret.merged) = seq_length => ret.inverted.val = <<>>)

\* three intervals, some of them folded by the merge, leaving a gap on each side
C6_Witness ==
    /\ call = "merge_invert"
    /\ Len(coords) = 3
    /\ Len(ret.merged) < 3
    /\ ~ret.inverted.raised
    /\ Len(ret.inverted.val) = 2

\* C7 as stated: invert(merge(invert(X, L)), L) = merge(X) for any interval
\* list X over length L.
C7_DoubleInvertOfAnyList ==
    call = "invert_merge_invert" =>
        ~ret.raised /\ ret.val = merge_overlapping_in_list(coords)

\* C7 as amended: invert(merge(invert(merge(X), L)), L) = merge(X): the double
\* complement of the normalised list restores it, and no Interval
\* construction raises on the way.
C7_DoubleInvertOfMergedList ==
    call = "invert_merge_invert_merged" =>
        ~ret.raised /\ ret.val = merge_overlapping_in_list(coords)

\* an unsorted, overlapping list whose normal form has two intervals
C7_Witness ==
    /\ call = "invert_merge_invert_merged"
    /\ Len(coords) = 3
    /\ coords # merge_overlapping_in_list(coords)
    /\ ~ret.raised
    /\ Len(ret.val) = 2

(***************************************************************************)
(* Claims on the gap analysis (checked under SpecGap).                     *)
(***************************************************************************)
\* position p of the reference lies in the reference interval of some hit
HitContains(hit_list, p) ==
    \E k \in 1..Len(hit_list) :
        \/ hit_list[k].ref_start <= p /\ p <= hit_list[k].ref_end
        \/ hit_list[k].ref_end <= p /\ p <= hit_list[k].ref_start

WellFormed(l, length) ==
    /\ \A k \in 1..Len(l) : 0 <= l[k][1] /\ l[k][1] <= l[k][2] /\ l[k][2] <= length - 1
    /\ \A k \in 1..(Len(l) - 1) : l[k][2] < l[k + 1][1]

\* C5: a position of a reference sequence lies in should_have_assembled iff
\* no hit's reference interval contains it and both the forward and the
\* reverse depth there reach min_ref_cov; should_have_assembled is the
\* intersection of not_covered_by_contigs with ok_coverage.
C5_ShouldHaveAssembledIsGapWithBothStrandsOk ==
    call = "gap" =>
        /\ ~ret.raised
        /\ WellFormed(ret.should_have_assembled, seq_length)
        /\ \A p \in 0..(seq_length - 1) :
               /\ Covers(ret.should_have_assembled, p) <=>
                      /\ ~HitContains(hits, p)
                      /\ depths[p + 1] >= self.min_ref_cov
                      /\ depths_rev[p + 1] >= self.min_ref_cov
               /\ Covers(ret.should_have_assembled, p) <=>
                      Covers(ret.not_covered, p) /\ Covers(ret.ok, p)
               /\ Covers(ret.ok, p) <=>
                      /\ depths[p + 1] >= self.min_ref_cov
                      /\ depths_rev[p + 1] >= self.min_ref_cov

\* a gap position where only one strand clears the threshold is left out while
\* another gap position, with both strands ok, is kept
C5_Witness ==
    /\ call = "gap"
    /\ Len(hits) >= 1
    /\ Len(ret.should_have_assembled) >= 1
    /\ \E p \in 0..(seq_length - 1) :
           /\ ~HitContains(hits, p)
           /\ depths[p + 1] >= self.min_ref_cov
           /\ depths_rev[p + 1] < self.min_ref_cov
           /\ ~Covers(ret.should_have_assembled, p)

(***************************************************************************)
(* Claims on the hit classifier (checked under SpecHits).                  *)
(***************************************************************************)
Occurrences(l, x) == Cardinality({k \in 1..Len(l) : l[k] = x})

Increasing(l) == \A k \in 1..(Len(l) - 1) : l[k] < l[k + 1]

\* C8: _get_unique_and_repetitive_from_contig_hits partitions its input:
\* every input hit is in exactly one of the two returned lists, nothing else
\* is in them, and each list keeps the input order.
C8_ClassificationIsPartition ==
    call = "classify" =>
        /\ \A i \in 1..Len(hits) :
               Occurrences(ret.unique, i) + Occurrences(ret.repetitive, i) = 1
        /\ \A k \in 1..Len(ret.unique) : ret.unique[k] \in 1..Len(hits)
        /\ \A k \in 1..Len(ret.repetitive) : ret.repetitive[k] \in 1..Len(hits)
        /\ Increasing(ret.unique)
        /\ Increasing(ret.repetitive)

\* three hits, a unique one between two repetitive ones
C8_Witness ==
    /\ call = "classify"
    /\ Len(hits) = 3
    /\ ret.unique = <<2>>
    /\ ret.repetitive = <<1, 3>>

\* the query intervals of two hits share a position
QrySharePosition(a, b) ==
    \E p \in 0..(MaxQryLen - 1) :
        /\ (a.qry_start <= p /\ p <= a.qry_end) \/ (a.qry_end <= p /\ p <= a.qry_start)
        /\ (b.qry_start <= p /\ p <= b.qry_end) \/ (b.qry_end <= p /\ p <= b.qry_start)

InList(l, x) == \E k \in 1..Len(l) : l[k] = x

\* C9: a hit is repetitive iff some other element of the group (a record with
\* the same coordinates included) has a query interval intersecting its own,
\* and unique iff there is none, wherever the hits lie on the reference.
C9_RepetitiveIffQueryOverlap ==
    call = "classify" =>
        \A i \in 1..Len(hits) :
            LET overlapped == \E j \in 1..Len(hits) :
                                  j # i /\ QrySharePosition(hits[j], hits[i])
            IN  /\ InList(ret.repetitive, i) <=> overlapped
                /\ InList(ret.unique, i) <=> ~overlapped

\* two hits with the same query interval placed apart on the reference are
\* both repetitive, and a hit sharing the reference interval of one of them
\* but no query position is unique
C9_Witness ==
    /\ call = "classify"
    /\ Len(hits) = 3
    /\ qry_coords(hits[1]) = qry_coords(hits[2])
    /\ ~Intersects(ref_coords(hits[1]), ref_coords(hits[2]))
    /\ ref_coords(hits[3]) = ref_coords(hits[1])
    /\ ret.repetitive = <<1, 2>>
    /\ ret.unique = <<3>>

\* the tuple the claim expects for the hit at place i of the group
ExpectedPlacement(i) ==
    <<qry_coords(hits[i]), hits[i].ref_name, ref_coords(hits[i]),
      on_same_strand(hits[i]),
      \E j \in 1..Len(hits) : j # i /\ QrySharePosition(hits[j], hits[i])>>

\* a placement tuple as a tuple of numbers that compare as its elements do
PlacementKey(t) ==
    <<t[1][1], t[1][2], IF t[2] = "ref1" THEN 1 ELSE 2, t[3][1], t[3][2],
      IF t[4] THEN 1 ELSE 0, IF t[5] THEN 1 ELSE 0>>

\* lexicographic a <= b on tuples of numbers of the same length
LexLe(a, b) ==
    \/ a = b
    \/ \E k \in 1..Len(a) : a[k] < b[k] /\ \A m \in 1..(k - 1) : a[m] = b[m]

\* the group in another order
Permuted(order) == [k \in 1..Len(hits) |-> hits[order[k]]]

\* C15: _contig_placement_in_reference returns one tuple (query interval,
\* ref_name, reference interval, same_strand, is_repetitive) per input hit,
\* is_repetitive being true exactly for the repetitive hits, in ascending
\* lexicographic order, and returns the same list for every order of the
\* input hits.
C15_PlacementIsSortedAndOrderFree ==
    call = "place" =>
        /\ Len(ret) = Len(hits)
        /\ \A i \in 1..Len(hits) :
               Occurrences(ret, ExpectedPlacement(i))
                   = Cardinality({j \in 1..Len(hits) :
                                     ExpectedPlacement(j) = ExpectedPlacement(i)})
        /\ \A k \in 1..(Len(ret) - 1) :
               LexLe(PlacementKey(ret[k]), PlacementKey(ret[k + 1]))
        /\ \A order \in Permutations(1..Len(hits)) :
               _contig_placement_in_reference(Permuted(order)) = ret

\* a repetitive hit given first comes out last, after the unique hit and the
\* repetitive hit given after it
C15_Witness ==
    /\ call = "place"
    /\ Len(hits) = 3
    /\ ret[1] = PlacementTuple(hits[2], FALSE)
    /\ ret[2] = PlacementTuple(hits[3], TRUE)
    /\ ret[3] = PlacementTuple(hits[1], TRUE)
    /\ ret[2] # ret[3]

(***************************************************************************)
(* Claims on the CDS scorer (checked under SpecCds).                       *)
(***************************************************************************)
\* the number of positions of a CDS of length n that lie in the CDS-side
\* interval of some hit
CdsPositionsHit(hit_list, n) ==
    Cardinality({p \in 0..(n - 1) :
        \E k \in 1..Len(hit_list) :
            \/ hit_list[k].qry_start <= p /\ p <= hit_list[k].qry_end
            \/ hit_list[k].qry_end <= p /\ p <= hit_list[k].qry_start})

\* C10: for a CDS with hits, assembled is (merged CDS-side hit length /
\* length_in_ref) in [0.9, 1.1], and assembled_ok is true iff there is
\* exactly one hit and the contig region of that hit holds an ORF of at least
\* 90% of length_in_ref; a CDS without hits keeps both flags false.  A
\* 300-base CDS with one 295-base hit holding an ORF is assembled and
\* assembled_ok; with two disjoint hits summing to 295 bases it is assembled
\* and not assembled_ok.
C10_CdsAssembledAndAssembledOk ==
    call = "cds" =>
        /\ ret.error = "none"
        /\ DOMAIN ret.stats = {CdsName("ref1", <<0, seq_length - 1>>, "+")}
        /\ LET record == ret.stats[CdsName("ref1", <<0, seq_length - 1>>, "+")]
               bases == CdsPositionsHit(hits, seq_length)
           IN  /\ record.length_in_ref = seq_length
               /\ Len(hits) >= 1 => record.bases_assembled = bases
               /\ record.assembled <=>
                      /\ Len(hits) >= 1
                      /\ 9 * seq_length <= 10 * bases
                      /\ 10 * bases <= 11 * seq_length
               /\ record.assembled_ok <=> (Len(hits) = 1 /\ hits[1].has_orf)
               /\ (seq_length = 300 /\ Len(hits) = 1 /\ bases = 295 /\ hits[1].has_orf)
                      => (record.assembled /\ record.assembled_ok)
               /\ (seq_length = 300 /\ Len(hits) = 2 /\ bases = 295)
                      => (record.assembled /\ ~record.assembled_ok)

\* the second example: a 300-base CDS with two disjoint hits of 150 and 145
\* bases, each on a contig region holding an ORF
C10_Witness ==
    /\ call = "cds"
    /\ seq_length = 300
    /\ Len(hits) = 2
    /\ qry_coords(hits[1]) = <<0, 149>>
    /\ qry_coords(hits[2]) = <<150, 294>>
    /\ hits[1].has_orf /\ hits[2].has_orf
    /\ ret.stats[CdsName("ref1", <<0, 299>>, "+")].assembled
    /\ ~ret.stats[CdsName("ref1", <<0, 299>>, "+")].assembled_ok

\* the positions of a reference sequence that some hit covers, by count
RefPositionsHit(hit_list) ==
    Cardinality({p \in 0..(11 * seq_length) \div 10 :
        \E k \in 1..Len(hit_list) :
            \/ hit_list[k].ref_start <= p /\ p <= hit_list[k].ref_end
            \/ hit_list[k].ref_end <= p /\ p <= hit_list[k].ref_start})

C12_RefseqAssembledOkIffOneHitInBand ==
    call = "refseq" =>
        LET record == ret["ref1"]
            bases == RefPositionsHit(hits)
        IN  /\ record.hits = Len(hits)
            /\ record.assembled_ok <=>
                   /\ Len(hits) = 1
                   /\ 9 * seq_length <= 10 * hits[1].hit_length_ref
                   /\ 10 * hits[1].hit_length_ref <= 11 * seq_length
            /\ Len(hits) >= 2 => ~record.assembled_ok
            /\ (seq_length = 5000 /\ Len(hits) = 1 /\ bases = 4550)
                   => (record.assembled /\ record.assembled_ok)
            /\ (seq_length = 5000 /\ Len(hits) = 2 /\ bases = 4750)
                   => (record.assembled /\ ~record.assembled_ok)

\* the second example: 5000 bases, hits on the first half and on the bases
\* from there to 95%
C12_Witness ==
    /\ call = "refseq"
    /\ seq_length = 5000
    /\ Len(hits) = 2
    /\ ref_coords(hits[1]) = <<0, 2499>>
    /\ ref_coords(hits[2]) = <<2500, 4749>>
    /\ ret["ref1"].bases_assembled = 4750
    /\ ret["ref1"].assembled
    /\ ~ret["ref1"].assembled_ok

\* the name of the record of a CDS line of the GFF
CdsNameOfLine(line) ==
    CdsName(line.seqname, <<line.start - 1, line.end - 1>>, line.strand)

\* C13: after a completed run cds_assembly_stats holds exactly one record per
\* CDS feature of the annotation, so stats['cds_number'] is the number of CDS
\* features, for any input, an empty assembly and CDS features without a hit
\* included.
C13_OneRecordPerCdsFeature ==
    pc = "returned" =>
        /\ DOMAIN self.cds_assembly_stats
               = {CdsNameOfLine(self.ref_gff[k]) : k \in 1..Len(self.ref_gff)}
        /\ self.stats["cds_number"] = Len(self.ref_gff)

\* the configurations the claim rejects: neither or both of embl_dir and
\* ref_db, neither or both of reads_fr and the pair reads_fwd + reads_rev,
\* only one of reads_fwd and reads_rev
BadConfiguration ==
    LET embl == kwargs.embl_dir # "None"
        db == kwargs.ref_db # "None"
        fr == kwargs.reads_fr # "None"
        fwd == kwargs.reads_fwd # "None"
        rev == kwargs.reads_rev # "None"
    IN  \/ embl = db
        \/ fr = (fwd /\ rev)
        \/ fwd # rev

\* no file has been written and no process made
NothingProcessed == files = {} /\ processes = <<>>

\* C14: with a bad configuration the constructor fails with Error before any
\* computation or file processing (deinterleaving, decompression, indexing).
C14_BadConfigurationFailsAtOnce ==
    BadConfiguration =>
        /\ NothingProcessed
        /\ pc # "constructed"
        /\ pc = "failed" => error = "Error"

\* both processes are running
BothRunning ==
    Len(processes) = 2 /\ processes[1] = "running" /\ processes[2] = "running"

\* C18: with two gzipped read files and threads == 1 the two processes never
\* run at the same time; they may only with threads > 1; and whatever the
\* number of processes and threads >= 1, every process started has been
\* joined when the constructor reaches line 113.
C18_ProcessesJoinedBeforeLine113 ==
    kwargs.threads >= 1 =>
        /\ kwargs.threads = 1 => ~BothRunning
        /\ BothRunning => kwargs.threads > 1
        /\ pc \in {"L113", "constructed"} =>
               \A i \in 1..Len(processes) : processes[i] = "joined"

\* two gzipped files and two threads: both processes running at once
C18_Witness ==
    /\ pc = "L109"
    /\ kwargs.threads = 2
    /\ EndsWithGz(kwargs.reads_fwd) /\ EndsWithGz(kwargs.reads_rev)
    /\ BothRunning

\* the steps the claim names: the stages of _do_calculations, the plots and
\* the two stats files
StepsBeforeClean == {Stages[i] : i \in 1..(Len(Stages) - 2)}

\* C16: run() is fail-fast and all-or-nothing: when a stage of
\* _do_calculations, the plotting or the writing of either stats file fails,
\* no later step is taken and the run has produced neither .stats.txt nor
\* .stats.tsv; a stats file is written only after every calculation stage.
C16_FailFastAllOrNothing ==
    [][/\ (pc \in StepsBeforeClean /\ pc' = "failed") =>
              ("stats_txt" \notin files' /\ "stats_tsv" \notin files')
       /\ pc # "failed"
       /\ ("stats_txt" \notin files /\ "stats_txt" \in files') =>
              pc = "_write_stats_txt"
       /\ ("stats_tsv" \notin files /\ "stats_tsv" \in files') =>
              pc = "_write_stats_tsv"]_vars

\* a dict keyed by the reference sequences has an entry for each of them
ForEveryRefSeq(d) == DOMAIN d = Elements(self.ref_ids)

\* the hits of the contigs have been loaded, where there are contigs
HitsLoaded ==
    /\ Done("_calculate_contig_placement")
    /\ self.assembly_is_empty \/ "assembly_vs_ref_coords" \in files
    /\ DOMAIN self.contig_placement = DOMAIN self.assembly_vs_ref_mummer_hits

OkOnlyIfAssembled(d) == \A name \in DOMAIN d : d[name].assembled_ok => d[name].assembled

\* C19: after scoring, every reference-sequence record and every CDS record
\* with assembled_ok = true has assembled = true, so that in the stats
\* ref_sequences_assembled_ok <= ref_sequences_assembled <= ref_sequences and
\* cds_assembled_ok <= cds_assembled <= cds_number.
C19_AssembledOkImpliesAssembled ==
    Done("_calculate_stats") =>
        /\ OkOnlyIfAssembled(self.refseq_assembly_stats)
        /\ OkOnlyIfAssembled(self.cds_assembly_stats)
        /\ self.stats["ref_sequences_assembled_ok"]
               <= self.stats["ref_sequences_assembled"]
        /\ self.stats["ref_sequences_assembled"] <= self.stats["ref_sequences"]
        /\ self.stats["cds_assembled_ok"] <= self.stats["cds_assembled"]
        /\ self.stats["cds_assembled"] <= self.stats["cds_number"]

=============================================================================
